---- MODULE Spec2Model ----
(***************************************************************************)
(* A model of src/main.py: the project cache refresh, the five task        *)
(* queries of get_tasks, the report rotation, the archive sweep and the    *)
(* rendering of task lines.                                                *)
(*                                                                         *)
(* Time is counted in minutes.  A file is a record (exists, content,       *)
(* mtime); the archive directory is the set of its dated report files.     *)
(* A report's content is identified by the number of the run that wrote it *)
(* and by how much of it reached the disk (full, partial, empty).          *)
(***************************************************************************)
EXTENDS Integers, Sequences, FiniteSets, TLC

VARIABLES
    \* ---- the process run (refresh_projects_info, generate_report)
    pc,             \* position of the running process, "idle" between runs
    now,            \* datetime.now(), minutes
    ticks,          \* clock advances so far
    runs,           \* process runs started so far
    cache,          \* target/notion-projects.json
    md,             \* target/tasks_report.md
    txt,            \* target/tasks_report.txt
    archive,        \* target/tasks_report_<date>.md / .txt
    projQueries,    \* project queries issued by the run
    taskQueries,    \* task queries issued by the run
    \* ---- observations of the run, for the properties
    start,          \* the files as the run started
    failedAt,       \* the step at which the run raised, "" if none
    lastRefresh,    \* how refresh_projects_info ended in this run, "none" before it
    refreshAt,      \* the clock as the freshness test of this run read it
    generated_at,   \* "generated_at" of the answer this run built, the clock then
    lastRotate,     \* what the last archive step did
    movesSinceWrite,\* archive steps that moved a file since a report file was created
    prevOk,         \* the last completed run, its date and what it wrote
    touched,        \* a failed run changed the current pair since prevOk
    archivedHist,   \* every (date, ext, content) the archive step stored under today's date
    removeErrors,   \* the files whose removal raised in the last sweep
    swallowed,      \* the files left short by a write that raised inside write_section
    \* ---- get_tasks
    db,             \* the remote task database, in the order it answers
    today,          \* datetime.now().date(), a day number
    tpc,            \* the query get_tasks is at (6: the return, 7: returned)
    issued,         \* the queries issued, in order
    failed,         \* the queries that raised
    high_priority,
    due_today,
    overdue,
    no_due_date_count,
    older_overdue_count,
    result,         \* what get_tasks returned
    \* ---- write_section
    rpc,            \* "render" before write_section is called, "rendered" after
    title,
    tasks,
    projects_info,
    encoding,       \* the encoding open(..., "w") gives both files
    raised,         \* the writes of write_section that raised
    md_file,        \* the lines written to the .md file
    txt_file        \* the lines written to the .txt file

mainVars == <<pc, now, ticks, runs, cache, md, txt, archive, projQueries,
              taskQueries, start, failedAt, lastRefresh, lastRotate,
              movesSinceWrite, prevOk, touched, archivedHist, removeErrors,
              swallowed, refreshAt, generated_at>>

taskVars == <<db, today, tpc, issued, failed, high_priority, due_today, overdue,
              no_due_date_count, older_overdue_count, result>>

renderVars == <<rpc, title, tasks, projects_info, encoding, raised, md_file,
                txt_file>>

vars == <<mainVars, taskVars, renderVars>>

\* ------------------------------------------------------------------ bounds
MaxRuns == 3
MaxTicks == 2

\* --------------------------------------------------------------- constants
MinutesPerDay == 24 * 60
FreshHours == 24
RetentionDays == 7
LastWeekDays == 7

\* The clock advances between runs by one minute, by a minute less than a
\* day (the two make a day), or by eight days.
TickSteps == {1, MinutesPerDay - 1, 8 * MinutesPerDay}

\* ------------------------------------------------------------------- files
NoContent == [run |-> 0, part |-> "none"]
Absent == [exists |-> FALSE, content |-> NoContent, mtime |-> 0]
FileOf(c, t) == [exists |-> TRUE, content |-> c, mtime |-> t]
Full(r) == [run |-> r, part |-> "full"]
Partial(r) == [run |-> r, part |-> "partial"]
Empty(r) == [run |-> r, part |-> "empty"]
\* The report of a run that completed, less the task lines or sections whose
\* write raised inside write_section
Lacking(r) == [run |-> r, part |-> "lacking"]

\* datetime.now().strftime("%Y_%m_%d"): the calendar date of a time
DateOf(t) == t \div MinutesPerDay

\* timedelta.days: whole days of a difference, rounded down
Days(delta) == delta \div MinutesPerDay

\* A cache exactly 24 hours old still counts as fresh.
IsFreshInclusive(t, mtime) == t - mtime <= FreshHours * 60

\* datetime.now() - last_modified < timedelta(hours=24)
IsFresh(t, mtime) == t - mtime < FreshHours * 60

\* (current_time - file_time).days > 7
TooOld(t, mtime) == Days(t - mtime) > RetentionDays

\* A dated file that exists is kept and the moved file is dropped.
MoveKeepsFirst(arch, f, date, ext) ==
    IF \E a \in arch : a.date = date /\ a.ext = ext
      THEN arch
      ELSE arch \cup {[date |-> date, ext |-> ext, content |-> f.content,
                        mtime |-> f.mtime]}

\* shutil.move(src, dated name): the dated name is replaced if it exists
MoveToArchive(arch, f, date, ext) ==
    {a \in arch : ~(a.date = date /\ a.ext = ext)}
        \cup {[date |-> date, ext |-> ext, content |-> f.content, mtime |-> f.mtime]}

\* The file is copied, not moved.
AfterCopy(f) == f

\* shutil.move: what is left at the source name
AfterMove(f) == Absent

\* cleanup_old_files: both patterns are swept; a file whose removal raises
\* (those in undeletable) is logged and kept
cleanup_old_files(arch, t, undeletable) ==
    {a \in arch : ~TooOld(t, a.mtime) \/ a \in undeletable}

\* The files among arch a sweep has visited when it stops early: the .md
\* pattern is globbed before the .txt pattern, each in the order of the
\* directory
SweepPrefixes(arch) ==
    {v \in SUBSET arch :
        (\E a \in v : a.ext = "txt") => \A a \in arch : a.ext = "md" => a \in v}

\* The five queries of get_tasks, in the order the code issues them
QueryOrder == <<"high_priority", "due_today", "overdue", "no_due_date", "older_overdue">>

\* ---------------------------------------------------------------- strings
\* A string is the sequence of its characters.
None == <<>>
Done == <<"D", "o", "n", "e">>
High == <<"H", "i", "g", "h">>
Low == <<"L", "o", "w">>
InProgress == <<"I", "n", " ", "p", "r", "o", "g", "r", "e", "s", "s">>
Unknown == <<"U", "n", "k", "n", "o", "w", "n">>
UnknownTask == <<"U", "n", "k", "n", "o", "w", "n", " ", "T", "a", "s", "k">>
UnknownProject == <<"U", "n", "k", "n", "o", "w", "n", " ", "P", "r", "o", "j", "e", "c", "t">>
FixBug == <<"F", "i", "x", " ", "b", "u", "g">>
CallBob == <<"C", "a", "l", "l", " ", "B", "o", "b">>
PayRent == <<"P", "a", "y", " ", "r", "e", "n", "t">>
Cafe == <<"C", "a", "f", "é">>
Bracketed == <<"a", "[", "1", "]">>
UrlX1 == <<"h", "t", "t", "p", ":", "/", "/", "x", "/", "1">>
UrlX2 == <<"h", "t", "t", "p", ":", "/", "/", "x", "/", "2">>
P1 == <<"p", "1">>
P2 == <<"p", "2">>
Alpha == <<"A", "l", "p", "h", "a">>
BetaBracketed == <<"B", "[", "x", "]">>

\* --------------------------------------------------------------- get_tasks
MaxTasks == 2

ClockAtStart == 10 * MinutesPerDay

\* A page of the task database: Name may be missing (hasName), its title
\* list may be empty (an untitled page), Project is a relation list, Due is
\* <<>> or <<day>>.
Page(id, hasName, titleList, url, relation, status, priority, due) ==
    [id |-> id, hasName |-> hasName, title |-> titleList, url |-> url,
     relation |-> relation, status |-> status, priority |-> priority, due |-> due]

\* The pages the database may hold, by due date relative to day td
TaskUniverse(td) == <<
    Page(1, TRUE,  <<FixBug>>,  UrlX1, <<P1>>, High,       High, <<td>>),
    Page(2, TRUE,  <<CallBob>>, UrlX2, <<>>,   Done,       High, <<td>>),
    Page(3, TRUE,  <<PayRent>>, UrlX2, <<P2>>, InProgress, Low,  <<td - 1>>),
    Page(4, TRUE,  <<CallBob>>, UrlX1, <<>>,   InProgress, High, <<td - 7>>),
    Page(5, TRUE,  <<PayRent>>, UrlX1, <<P1>>, InProgress, High, <<td - 8>>),
    Page(6, TRUE,  <<FixBug>>,  UrlX2, <<>>,   InProgress, Low,  <<>>),
    Page(7, TRUE,  <<Bracketed>>, UrlX1, <<>>, InProgress, High, <<td + 1>>),
    Page(8, TRUE,  <<>>,        UrlX2, <<P1>>, InProgress, High, <<td>>),
    Page(9, FALSE, <<>>,        UrlX1, <<P2>>, InProgress, Low,  <<td - 3>>) >>

DbChoices(td) ==
    {SelectSeq(TaskUniverse(td), LAMBDA t : t.id \in S) :
        S \in {X \in SUBSET (1..Len(TaskUniverse(td))) : Cardinality(X) <= MaxTasks}}

\* The conditions of the filters
StatusNotDone ==
    [property |-> "Status", kind |-> "status",
     ops |-> {[op |-> "does_not_equal", arg |-> Done]}]
PriorityHigh ==
    [property |-> "Priority", kind |-> "status",
     ops |-> {[op |-> "equals", arg |-> High]}]
DueCondition(ops) == [property |-> "Due", kind |-> "date", ops |-> ops]

\* The five filters, built from today and last_week = today - 7 days
high_priority_filter(td) ==
    <<StatusNotDone, PriorityHigh, DueCondition({[op |-> "on_or_before", arg |-> td]})>>
due_today_filter(td) ==
    <<StatusNotDone, DueCondition({[op |-> "equals", arg |-> td]})>>
overdue_filter(td) ==
    <<StatusNotDone, DueCondition({[op |-> "on_or_before", arg |-> td],
                                   [op |-> "on_or_after", arg |-> td - LastWeekDays]})>>
no_due_date_filter(td) ==
    <<StatusNotDone, DueCondition({[op |-> "is_empty", arg |-> TRUE]})>>
older_overdue_filter(td) ==
    <<StatusNotDone, DueCondition({[op |-> "before", arg |-> td - LastWeekDays]})>>

\* notion.databases.query: the database answers a filter exactly.  A page
\* satisfies an "and" filter when it satisfies every condition, and a
\* condition when the property satisfies every operator named in it.
PropertyOf(page, property) ==
    CASE property = "Status"   -> page.status
      [] property = "Priority" -> page.priority
      [] property = "Due"      -> page.due

StatusOpHolds(v, o) ==
    CASE o.op = "does_not_equal" -> v # o.arg
      [] o.op = "equals"         -> v = o.arg

DateOpHolds(v, o) ==
    CASE o.op = "is_empty"     -> (v = <<>>) = o.arg
      [] o.op = "equals"       -> v # <<>> /\ v[1] = o.arg
      [] o.op = "on_or_before" -> v # <<>> /\ v[1] <= o.arg
      [] o.op = "on_or_after"  -> v # <<>> /\ v[1] >= o.arg
      [] o.op = "before"       -> v # <<>> /\ v[1] < o.arg

ConditionHolds(page, c) ==
    \A o \in c.ops :
        IF c.kind = "date" THEN DateOpHolds(PropertyOf(page, c.property), o)
        ELSE StatusOpHolds(PropertyOf(page, c.property), o)

Matches(page, filter) == \A i \in DOMAIN filter : ConditionHolds(page, filter[i])

QueryResults(database, filter) == SelectSeq(database, LAMBDA t : Matches(t, filter))

\* process_task: (task_name, task_url, project_id, status), or None when the
\* title list is empty ([][0] raises)
process_task(t) ==
    IF t.hasName /\ t.title = <<>>
      THEN None
      ELSE << IF t.hasName THEN t.title[1] ELSE UnknownTask,
              t.url,
              IF t.relation # <<>> THEN <<t.relation[1]>> ELSE None,
              t.status >>

\* [task for task in (process_task(t) for t in results) if task]
Processed(results) ==
    LET kept == SelectSeq(results, LAMBDA t : process_task(t) # None)
    IN  [i \in 1..Len(kept) |-> process_task(kept[i])]

\* A query that raises leaves get_tasks at the return with nothing more
\* issued.
AfterQueryErrorAbort(i) == Len(QueryOrder) + 1

\* except Exception: the error is logged and get_tasks goes on with the
\* next query
AfterQueryError(i) == i + 1

TasksIdle ==
    /\ db = <<>>
    /\ today = 0
    /\ tpc = 0
    /\ issued = <<>>
    /\ failed = {}
    /\ high_priority = <<>>
    /\ due_today = <<>>
    /\ overdue = <<>>
    /\ no_due_date_count = 0
    /\ older_overdue_count = 0
    /\ result = <<>>

\* get_tasks is entered: the buckets are initialised
TasksInit ==
    /\ today = DateOf(ClockAtStart)
    /\ db \in DbChoices(today)
    /\ tpc = 1
    /\ issued = <<>>
    /\ failed = {}
    /\ high_priority = <<>>
    /\ due_today = <<>>
    /\ overdue = <<>>
    /\ no_due_date_count = 0
    /\ older_overdue_count = 0
    /\ result = <<>>

QueryHighPriority ==
    /\ tpc = 1
    /\ issued' = Append(issued, QueryOrder[1])
    /\ \E raises \in BOOLEAN :
         /\ high_priority' =
              IF raises THEN high_priority
              ELSE Processed(QueryResults(db, high_priority_filter(today)))
         /\ failed' = IF raises THEN failed \cup {QueryOrder[1]} ELSE failed
         /\ tpc' = IF raises THEN AfterQueryError(1) ELSE 2
    /\ UNCHANGED <<db, today, due_today, overdue, no_due_date_count,
                   older_overdue_count, result>>
    /\ UNCHANGED <<mainVars, renderVars>>

QueryDueToday ==
    /\ tpc = 2
    /\ issued' = Append(issued, QueryOrder[2])
    /\ \E raises \in BOOLEAN :
         /\ due_today' =
              IF raises THEN due_today
              ELSE Processed(QueryResults(db, due_today_filter(today)))
         /\ failed' = IF raises THEN failed \cup {QueryOrder[2]} ELSE failed
         /\ tpc' = IF raises THEN AfterQueryError(2) ELSE 3
    /\ UNCHANGED <<db, today, high_priority, overdue, no_due_date_count,
                   older_overdue_count, result>>
    /\ UNCHANGED <<mainVars, renderVars>>

QueryOverdue ==
    /\ tpc = 3
    /\ issued' = Append(issued, QueryOrder[3])
    /\ \E raises \in BOOLEAN :
         /\ overdue' =
              IF raises THEN overdue
              ELSE Processed(QueryResults(db, overdue_filter(today)))
         /\ failed' = IF raises THEN failed \cup {QueryOrder[3]} ELSE failed
         /\ tpc' = IF raises THEN AfterQueryError(3) ELSE 4
    /\ UNCHANGED <<db, today, high_priority, due_today, no_due_date_count,
                   older_overdue_count, result>>
    /\ UNCHANGED <<mainVars, renderVars>>

QueryNoDueDate ==
    /\ tpc = 4
    /\ issued' = Append(issued, QueryOrder[4])
    /\ \E raises \in BOOLEAN :
         /\ no_due_date_count' =
              IF raises THEN no_due_date_count
              ELSE Len(QueryResults(db, no_due_date_filter(today)))
         /\ failed' = IF raises THEN failed \cup {QueryOrder[4]} ELSE failed
         /\ tpc' = IF raises THEN AfterQueryError(4) ELSE 5
    /\ UNCHANGED <<db, today, high_priority, due_today, overdue,
                   older_overdue_count, result>>
    /\ UNCHANGED <<mainVars, renderVars>>

QueryOlderOverdue ==
    /\ tpc = 5
    /\ issued' = Append(issued, QueryOrder[5])
    /\ \E raises \in BOOLEAN :
         /\ older_overdue_count' =
              IF raises THEN older_overdue_count
              ELSE Len(QueryResults(db, older_overdue_filter(today)))
         /\ failed' = IF raises THEN failed \cup {QueryOrder[5]} ELSE failed
         /\ tpc' = IF raises THEN AfterQueryError(5) ELSE 6
    /\ UNCHANGED <<db, today, high_priority, due_today, overdue,
                   no_due_date_count, result>>
    /\ UNCHANGED <<mainVars, renderVars>>

\* return high_priority, due_today, overdue, no_due_date_count, older_overdue_count
\* (nothing outside the five inner try blocks raises, so the outer except,
\* which returns five empty buckets, is never entered)
ReturnTasks ==
    /\ tpc = 6
    /\ result' = <<high_priority, due_today, overdue, no_due_date_count,
                   older_overdue_count>>
    /\ tpc' = 7
    /\ UNCHANGED <<db, today, issued, failed, high_priority, due_today, overdue,
                   no_due_date_count, older_overdue_count>>
    /\ UNCHANGED <<mainVars, renderVars>>

\* ----------------------------------------------------------- write_section
MaxSectionTasks == 1

HighPriorityTitle == <<"H", "i", "g", "h", " ", "P", "r", "i", "o", "r", "i", "t", "y">>
DueTodayTitle == <<"D", "u", "e", " ", "T", "o", "d", "a", "y">>
OverdueTitle == <<"O", "v", "e", "r", "d", "u", "e", " ", "(", "L", "a", "s", "t", " ", "7", " ", "D", "a", "y", "s", ")">>
SectionTitles == {HighPriorityTitle, DueTodayTitle, OverdueTitle}

\* The task records and the project caches write_section is given
RenderTasks ==
    {<<n, u, p, st>> : n \in {FixBug, Bracketed, Cafe}, u \in {UrlX1},
                       p \in {None, <<P1>>, <<P2>>}, st \in {High, Unknown, <<>>}}

TaskLists == UNION {[1..n -> RenderTasks] : n \in 0..MaxSectionTasks}

ProjectCaches ==
    { [k \in {} |-> <<>>],
      [k \in {P1} |-> Alpha],
      [k \in {P1} |-> UnknownProject],
      [k \in {P1, P2} |-> IF k = P1 THEN Alpha ELSE BetaBracketed] }

\* The encodings open(..., "w") may give the files (the locale's)
Encodings == {"utf-8", "ascii"}

\* The characters of the names above that are not ASCII
NonAscii == {"é"}

\* file.write(line) encodes the line; a character the encoding lacks raises
\* UnicodeEncodeError and nothing of the line is written
Encodable(line, enc) == enc = "utf-8" \/ \A i \in DOMAIN line : line[i] \notin NonAscii

\* A pair of writes, md_file.write then txt_file.write: neither raises, the
\* first raises (the second is not reached), or the second raises
WriteFaults == {"none", "md", "txt"}

NoneRaised == [heading |-> "none", lines |-> <<>>, blank |-> "none"]

\* Only the opening brackets are removed.
StripOpeningBrackets(line) == SelectSeq(line, LAMBDA c : c # "[")

\* task_line.replace("[", "").replace("]", "")
StripBrackets(line) == SelectSeq(line, LAMBDA c : c \notin {"[", "]"})

\* projects_info["projects"].get(project_id, "Unknown Project")
ProjectName(projects, project_id) ==
    IF project_id # None /\ project_id[1] \in DOMAIN projects
      THEN projects[project_id[1]]
      ELSE UnknownProject

\* The line of one task, as written to the .md file
TaskLine(task, projects) ==
    LET task_name == task[1]
        task_url == task[2]
        project_id == task[3]
        status == task[4]
        project_name == ProjectName(projects, project_id)
        line0 == <<"-", " ", "[", " ", "]", " ", "[">> \o task_name \o <<"]", "(">> \o task_url \o <<")">>
        line1 == IF project_name # UnknownProject
                   THEN line0 \o <<" ", "(", "P", "r", "o", "j", "e", "c", "t", ":", " ">> \o project_name \o <<")">>
                   ELSE line0
    IN  IF status # <<>> /\ status # Unknown
          THEN line1 \o <<",", " ", "S", "t", "a", "t", "u", "s", ":", " ">> \o status
          ELSE line1

RenderIdle ==
    /\ rpc = "idle"
    /\ title = <<>>
    /\ tasks = <<>>
    /\ projects_info = [k \in {} |-> <<>>]
    /\ encoding = "utf-8"
    /\ raised = NoneRaised
    /\ md_file = <<>>
    /\ txt_file = <<>>

\* write_section(title, tasks) is about to be called
RenderInit ==
    /\ rpc = "render"
    /\ title \in SectionTitles
    /\ tasks \in TaskLists
    /\ projects_info \in ProjectCaches
    /\ encoding \in Encodings
    /\ raised = NoneRaised
    /\ md_file = <<>>
    /\ txt_file = <<>>

\* The faults the writes of one call may meet: a line the encoding cannot
\* take raises at the .md write; any write may raise by an error of the
\* file system; after a heading write that raised no other write is reached
FaultChoices ==
    {f \in [heading : WriteFaults, lines : [DOMAIN tasks -> WriteFaults],
            blank : WriteFaults] :
        IF f.heading # "none"
          THEN f.blank = "none" /\ \A i \in DOMAIN tasks : f.lines[i] = "none"
          ELSE \A i \in DOMAIN tasks :
                  ~Encodable(TaskLine(tasks[i], projects_info), encoding)
                      => f.lines[i] = "md"}

\* The lines of seq whose index is in keep, in order
Kept(seq, keep) ==
    LET idx == SelectSeq([i \in 1..Len(seq) |-> i], LAMBDA i : i \in keep)
    IN  [k \in 1..Len(idx) |-> seq[idx[k]]]

\* write_section: nothing for an empty bucket.  Otherwise the heading, one
\* line per task and an empty line, in both files.  A task whose write
\* raises is logged and skipped: at the .md write it is in neither file, at
\* the .txt write it is in the .md file only.  A write of the heading or of
\* the empty line that raises ends the section there.
WriteSection ==
    /\ rpc = "render"
    /\ rpc' = "rendered"
    /\ IF tasks = <<>>
         THEN UNCHANGED <<md_file, txt_file, raised>>
         ELSE \E f \in FaultChoices :
              LET mdLines == [i \in 1..Len(tasks) |-> TaskLine(tasks[i], projects_info)]
                  txtLines == [i \in 1..Len(tasks) |-> StripBrackets(mdLines[i])]
                  mdKeep == {i \in DOMAIN tasks : f.lines[i] # "md"}
                  txtKeep == {i \in DOMAIN tasks : f.lines[i] = "none"}
              IN  /\ raised' = f
                  /\ md_file' =
                        IF f.heading = "md" THEN md_file
                        ELSE IF f.heading = "txt"
                          THEN md_file \o << <<"#", "#", " ">> \o title >>
                        ELSE md_file \o << <<"#", "#", " ">> \o title >>
                               \o Kept(mdLines, mdKeep)
                               \o (IF f.blank = "md" THEN <<>> ELSE << <<>> >>)
                  /\ txt_file' =
                        IF f.heading # "none" THEN txt_file
                        ELSE txt_file \o << title \o <<":">> >>
                               \o Kept(txtLines, txtKeep)
                               \o (IF f.blank = "none" THEN << <<>> >> ELSE <<>>)
    /\ UNCHANGED <<title, tasks, projects_info, encoding>>
    /\ UNCHANGED <<mainVars, taskVars>>

\* ------------------------------------------------------- the process run
\* The cache is loaded after the archive step and the sweep.
StepAfterLoadLate(step) ==
    CASE step = "tasks"   -> "rotate"
      [] step = "rotate"  -> "cleanup"
      [] step = "cleanup" -> "load"
      [] step = "load"    -> "open"
      [] step = "open"    -> "write"
      [] step = "write"   -> "done"

\* generate_report: the order of its steps
StepAfter(step) ==
    CASE step = "tasks"   -> "load"
      [] step = "load"    -> "rotate"
      [] step = "rotate"  -> "cleanup"
      [] step = "cleanup" -> "open"
      [] step = "open"    -> "write"
      [] step = "write"   -> "done"

\* The error is swallowed and the run goes on to generate_report().
AfterRefreshErrorSwallowed == "tasks"

\* __main__: refresh_projects_info() is called bare, so what it raises ends
\* the process before generate_report() is called
AfterRefreshError == "crashed"

Snapshot == [cache |-> cache, md |-> md, txt |-> txt, archive |-> archive]

NoSnapshot == [cache |-> Absent, md |-> Absent, txt |-> Absent, archive |-> {}]

NoPrev == [run |-> 0, date |-> 0, md |-> NoContent, txt |-> NoContent]

MainInit ==
    /\ pc = "idle"
    /\ now = 0
    /\ ticks = 0
    /\ runs = 0
    /\ cache = Absent
    /\ md = Absent
    /\ txt = Absent
    /\ archive = {}
    /\ projQueries = 0
    /\ taskQueries = 0
    /\ start = NoSnapshot
    /\ failedAt = ""
    /\ lastRefresh = "none"
    /\ lastRotate = "none"
    /\ movesSinceWrite = 0
    /\ prevOk = NoPrev
    /\ touched = FALSE
    /\ archivedHist = {}
    /\ removeErrors = {}
    /\ swallowed = "none"
    /\ refreshAt = 0
    /\ generated_at = 0

\* The steps of a run before which the clock may have moved on since the
\* step before: each reads the clock, or creates a file at the clock's time
\* (the freshness test, the project query and "generated_at", the write of
\* the cache file, datetime.now().date() of get_tasks, the archive name,
\* the sweep, the opening of the report files and their writes)
RunTickPoints ==
    {"refresh", "query", "store", "tasks", "load", "rotate", "cleanup", "open", "write"}

\* The clock advances: between two runs by a step of TickSteps (it is read
\* from the first run on, and nothing reads it after the last), during a
\* run by a minute.  The step of eight days, an absence long enough for the
\* sweep to delete the archive, comes before the last run.
Tick ==
    /\ \/ pc = "idle" /\ runs > 0 /\ runs < MaxRuns
       \/ pc \in RunTickPoints
    /\ ticks < MaxTicks
    /\ \E d \in (IF pc = "idle" THEN TickSteps ELSE {1}) :
         /\ d > MinutesPerDay => runs = MaxRuns - 1
         /\ now' = now + d
    /\ ticks' = ticks + 1
    /\ UNCHANGED <<pc, runs, cache, md, txt, archive, projQueries, taskQueries,
                   start, failedAt, lastRefresh, lastRotate, movesSinceWrite,
                   prevOk, touched, archivedHist>>
    /\ UNCHANGED <<removeErrors, swallowed, refreshAt, generated_at, taskVars, renderVars>>

\* The process is started (python main.py).
StartRun ==
    /\ pc = "idle"
    /\ runs < MaxRuns
    /\ runs' = runs + 1
    /\ pc' = "refresh"
    /\ start' = Snapshot
    /\ archivedHist' = {h \in archivedHist : h.date = DateOf(now)}
    /\ UNCHANGED <<now, ticks, cache, md, txt, archive, projQueries, taskQueries,
                   failedAt, lastRefresh, lastRotate, movesSinceWrite, prevOk,
                   touched>>
    /\ UNCHANGED <<removeErrors, swallowed, refreshAt, generated_at, taskVars, renderVars>>

\* refresh_projects_info with a cache file younger than 24 hours, by the
\* clock as the test reads it: returns
RefreshFresh ==
    /\ pc = "refresh"
    /\ cache.exists /\ IsFresh(now, cache.mtime)
    /\ pc' = "tasks"
    /\ lastRefresh' = "fresh"
    /\ refreshAt' = now
    /\ UNCHANGED <<now, ticks, runs, cache, md, txt, archive, projQueries,
                   taskQueries, start, failedAt, lastRotate, movesSinceWrite,
                   prevOk, touched, archivedHist>>
    /\ UNCHANGED <<removeErrors, swallowed, generated_at, taskVars, renderVars>>

\* refresh_projects_info with no cache file, or one 24 hours old or older:
\* goes on to the project query
RefreshStale ==
    /\ pc = "refresh"
    /\ ~(cache.exists /\ IsFresh(now, cache.mtime))
    /\ pc' = "query"
    /\ refreshAt' = now
    /\ UNCHANGED <<now, ticks, runs, cache, md, txt, archive, projQueries,
                   taskQueries, start, failedAt, lastRefresh, lastRotate,
                   movesSinceWrite, prevOk, touched, archivedHist>>
    /\ UNCHANGED <<removeErrors, swallowed, generated_at, taskVars, renderVars>>

\* refresh_projects_info, the project query and the building of the answer.
\* The query raises ("error"); or it answers, "generated_at" is read off the
\* clock, and the comprehension raises on an entry whose title list is
\* empty ("untitled") or gives the mapping to store ("entries").
RefreshQuery ==
    /\ pc = "query"
    /\ projQueries' = projQueries + 1
    /\ \E answer \in {"error", "untitled", "entries"} :
         /\ generated_at' = IF answer = "error" THEN generated_at ELSE now
         /\ pc' = IF answer = "entries" THEN "store" ELSE AfterRefreshError
         /\ failedAt' = IF answer = "entries" THEN failedAt ELSE "refresh"
         /\ lastRefresh' = IF answer = "entries" THEN lastRefresh ELSE answer
    /\ UNCHANGED <<now, ticks, runs, cache, md, txt, archive, taskQueries, start,
                   lastRotate, movesSinceWrite, prevOk, touched, archivedHist>>
    /\ UNCHANGED <<removeErrors, swallowed, refreshAt, taskVars, renderVars>>

\* refresh_projects_info, the write of the cache file: open(..., "w")
\* raises and the file is as it was ("write_raised"), or the file is
\* created or truncated and written at the clock of the write, wholly
\* ("full") or up to the point where json.dump raises ("partial")
RefreshWrite ==
    /\ pc = "store"
    /\ \E part \in {"write_raised", "full", "partial"} :
         /\ cache' = IF part = "write_raised" THEN cache
                     ELSE FileOf([run |-> runs, part |-> part], now)
         /\ pc' = IF part = "full" THEN "tasks" ELSE AfterRefreshError
         /\ failedAt' = IF part = "full" THEN failedAt ELSE "refresh"
         /\ lastRefresh' = part
    /\ UNCHANGED <<now, ticks, runs, md, txt, archive, projQueries, taskQueries,
                   start, lastRotate, movesSinceWrite, prevOk, touched,
                   archivedHist>>
    /\ UNCHANGED <<removeErrors, swallowed, refreshAt, generated_at, taskVars,
                   renderVars>>

\* generate_report, get_tasks(): the five queries are issued; get_tasks
\* catches what they raise and always returns
GetTasks ==
    /\ pc = "tasks"
    /\ taskQueries' = taskQueries + Len(QueryOrder)
    /\ pc' = StepAfter("tasks")
    /\ UNCHANGED <<now, ticks, runs, cache, md, txt, archive, projQueries, start,
                   failedAt, lastRefresh, lastRotate, movesSinceWrite, prevOk,
                   touched, archivedHist>>
    /\ UNCHANGED <<removeErrors, swallowed, refreshAt, generated_at, taskVars, renderVars>>

\* generate_report, json.load of the cache file: raises on a truncated file
LoadCache ==
    /\ pc = "load"
    /\ IF cache.exists /\ cache.content.part = "full"
         THEN pc' = StepAfter("load") /\ failedAt' = failedAt
         ELSE pc' = "failed" /\ failedAt' = "load"
    /\ UNCHANGED <<now, ticks, runs, cache, md, txt, archive, projQueries,
                   taskQueries, start, lastRefresh, lastRotate, movesSinceWrite,
                   prevOk, touched, archivedHist>>
    /\ UNCHANGED <<removeErrors, swallowed, refreshAt, generated_at, taskVars, renderVars>>

\* generate_report, the archive step with no tasks_report.md: nothing moves
RotateSkip ==
    /\ pc = "rotate"
    /\ ~md.exists
    /\ pc' = StepAfter("rotate")
    /\ lastRotate' = "skipped"
    /\ UNCHANGED <<now, ticks, runs, cache, md, txt, archive, projQueries,
                   taskQueries, start, failedAt, lastRefresh, movesSinceWrite,
                   prevOk, touched, archivedHist>>
    /\ UNCHANGED <<removeErrors, swallowed, refreshAt, generated_at, taskVars, renderVars>>

\* generate_report, the archive step, the move of tasks_report.md raises
RotateMdError ==
    /\ pc = "rotate"
    /\ md.exists
    /\ pc' = "failed"
    /\ failedAt' = "rotate"
    /\ lastRotate' = "md_error"
    /\ UNCHANGED <<now, ticks, runs, cache, md, txt, archive, projQueries,
                   taskQueries, start, lastRefresh, movesSinceWrite, prevOk,
                   touched, archivedHist>>
    /\ UNCHANGED <<removeErrors, swallowed, refreshAt, generated_at, taskVars, renderVars>>

\* generate_report, the archive step: tasks_report.md is moved, then
\* tasks_report.txt; the second move raises when the file is missing, or
\* by an error of the file system (txtError)
Rotate ==
    /\ pc = "rotate"
    /\ md.exists
    /\ \E txtError \in BOOLEAN :
         LET date == DateOf(now)
             arch1 == MoveToArchive(archive, md, date, "md")
             moved == txt.exists /\ ~txtError
         IN  /\ md' = AfterMove(md)
             /\ txt' = IF moved THEN AfterMove(txt) ELSE txt
             /\ archive' = IF moved THEN MoveToArchive(arch1, txt, date, "txt")
                           ELSE arch1
             /\ archivedHist' = archivedHist
                   \cup {[date |-> date, ext |-> "md", content |-> md.content]}
                   \cup (IF moved
                           THEN {[date |-> date, ext |-> "txt", content |-> txt.content]}
                           ELSE {})
             /\ pc' = IF moved THEN StepAfter("rotate") ELSE "failed"
             /\ failedAt' = IF moved THEN failedAt ELSE "rotate"
             /\ lastRotate' = IF moved THEN "moved" ELSE "txt_error"
    /\ movesSinceWrite' = movesSinceWrite + 1
    /\ UNCHANGED <<now, ticks, runs, cache, projQueries, taskQueries, start,
                   lastRefresh, prevOk, touched>>
    /\ UNCHANGED <<removeErrors, swallowed, refreshAt, generated_at, taskVars, renderVars>>

\* generate_report, cleanup_old_files(): every dated file is visited
Cleanup ==
    /\ pc = "cleanup"
    /\ \E undeletable \in SUBSET {a \in archive : TooOld(now, a.mtime)} :
         /\ archive' = cleanup_old_files(archive, now, undeletable)
         /\ removeErrors' = undeletable
    /\ pc' = StepAfter("cleanup")
    /\ UNCHANGED <<now, ticks, runs, cache, md, txt, projQueries, taskQueries,
                   start, failedAt, lastRefresh, lastRotate, movesSinceWrite,
                   prevOk, touched, archivedHist>>
    /\ UNCHANGED <<swallowed, refreshAt, generated_at, taskVars, renderVars>>

\* generate_report, cleanup_old_files(): os.path.getmtime raises on a name
\* glob returned (a dangling link, or a file that went away since), outside
\* the try; the files visited before it have been swept (visited: those of
\* them that are too old), the others are left as they are, and the run
\* fails there
CleanupStatError ==
    /\ pc = "cleanup"
    /\ \E visited \in SweepPrefixes({a \in archive : TooOld(now, a.mtime)}) :
         \E undeletable \in SUBSET visited :
            /\ archive' = (archive \ visited)
                              \cup cleanup_old_files(visited, now, undeletable)
            /\ removeErrors' = undeletable
    /\ pc' = "failed"
    /\ failedAt' = "cleanup"
    /\ UNCHANGED <<now, ticks, runs, cache, md, txt, projQueries, taskQueries,
                   start, lastRefresh, lastRotate, movesSinceWrite,
                   prevOk, touched, archivedHist>>
    /\ UNCHANGED <<swallowed, refreshAt, generated_at, taskVars, renderVars>>

\* generate_report, open(REPORT_FILE_MD, "w") raises
OpenMdError ==
    /\ pc = "open"
    /\ pc' = "failed"
    /\ failedAt' = "open"
    /\ UNCHANGED <<now, ticks, runs, cache, md, txt, archive, projQueries,
                   taskQueries, start, lastRefresh, lastRotate, movesSinceWrite,
                   prevOk, touched, archivedHist>>
    /\ UNCHANGED <<removeErrors, swallowed, refreshAt, generated_at, taskVars, renderVars>>

\* generate_report, open(REPORT_FILE_MD, "w") creates or truncates the file,
\* then open(REPORT_FILE_TXT, "w") does, or raises (txtError)
OpenFiles ==
    /\ pc = "open"
    /\ md' = FileOf(Empty(runs), now)
    /\ movesSinceWrite' = 0
    /\ \E txtError \in BOOLEAN :
         /\ txt' = IF txtError THEN txt ELSE FileOf(Empty(runs), now)
         /\ pc' = IF txtError THEN "failed" ELSE StepAfter("open")
         /\ failedAt' = IF txtError THEN "open" ELSE failedAt
    /\ UNCHANGED <<now, ticks, runs, cache, archive, projQueries, taskQueries,
                   start, lastRefresh, lastRotate, prevOk, touched, archivedHist>>
    /\ UNCHANGED <<removeErrors, swallowed, refreshAt, generated_at, taskVars, renderVars>>

\* What the writes that raise inside write_section, which are logged and
\* skipped, leave short: neither file, the .txt file only (the write of a
\* task line or of the empty line to it raised), or both files (a write to
\* the .md file raised, so that the .txt write was not reached, or the
\* write of the heading to the .txt file raised, so that the section's
\* lines went to neither file)
SectionOutcomes == {"none", "txt", "both"}

\* generate_report, the writes of the title, the sections and the notes.
\* A write outside write_section that raises (writeError) leaves both files
\* incomplete ("partial": some prefix of the report, possibly none of it)
\* and the run fails; a file that nothing reached since it was opened
\* keeps the time of its opening (reached: the files something was
\* written to before the run failed; the writes are buffered and the .txt
\* file is closed first, so either file can be the one left out).  A write
\* inside write_section that raises is swallowed; the run goes on, and
\* completes with files that lack lines unless a later write outside
\* write_section raises.
WriteReport ==
    /\ pc = "write"
    /\ \E writeError \in BOOLEAN, sectionError \in SectionOutcomes,
          reached \in SUBSET {"md", "txt"} :
         /\ ~writeError => reached = {"md", "txt"}
         /\ md' = FileOf(IF writeError THEN Partial(runs)
                         ELSE IF sectionError = "both" THEN Lacking(runs)
                         ELSE Full(runs),
                         IF "md" \in reached THEN now ELSE md.mtime)
         /\ txt' = FileOf(IF writeError THEN Partial(runs)
                          ELSE IF sectionError # "none" THEN Lacking(runs)
                          ELSE Full(runs),
                          IF "txt" \in reached THEN now ELSE txt.mtime)
         /\ swallowed' = sectionError
         /\ pc' = IF writeError THEN "failed" ELSE StepAfter("write")
         /\ failedAt' = IF writeError THEN "write" ELSE failedAt
    /\ UNCHANGED <<now, ticks, runs, cache, archive, projQueries, taskQueries,
                   start, lastRefresh, lastRotate, movesSinceWrite, prevOk,
                   touched, archivedHist>>
    /\ UNCHANGED <<removeErrors, refreshAt, generated_at, taskVars, renderVars>>

\* The process ends: generate_report returned, or an exception reached the
\* top level.
Exit ==
    /\ pc \in {"done", "failed", "crashed"}
    /\ pc' = "idle"
    /\ prevOk' = IF pc = "done"
                   THEN [run |-> runs, date |-> DateOf(now),
                         md |-> md.content, txt |-> txt.content]
                   ELSE prevOk
    /\ touched' = IF pc = "done" THEN FALSE
                  ELSE touched \/ md # start.md \/ txt # start.txt
    /\ projQueries' = 0
    /\ taskQueries' = 0
    /\ start' = NoSnapshot
    /\ failedAt' = ""
    /\ lastRefresh' = "none"
    /\ lastRotate' = "none"
    /\ removeErrors' = {}
    /\ swallowed' = "none"
    /\ refreshAt' = 0
    /\ generated_at' = 0
    /\ UNCHANGED <<now, ticks, runs, cache, md, txt, archive, movesSinceWrite,
                   archivedHist>>
    /\ UNCHANGED <<taskVars, renderVars>>

Init == MainInit /\ TasksIdle /\ RenderIdle

Next ==
    \/ Tick
    \/ StartRun
    \/ RefreshFresh
    \/ RefreshStale
    \/ RefreshQuery
    \/ RefreshWrite
    \/ GetTasks
    \/ LoadCache
    \/ RotateSkip
    \/ RotateMdError
    \/ Rotate
    \/ Cleanup
    \/ CleanupStatError
    \/ OpenMdError
    \/ OpenFiles
    \/ WriteReport
    \/ Exit

Spec == Init /\ [][Next]_vars

\* ------------------------------------------------- get_tasks on its own
InitTasks == MainInit /\ TasksInit /\ RenderIdle

NextTasks ==
    \/ QueryHighPriority
    \/ QueryDueToday
    \/ QueryOverdue
    \/ QueryNoDueDate
    \/ QueryOlderOverdue
    \/ ReturnTasks

SpecTasks == InitTasks /\ [][NextTasks]_vars

Bucket(q) ==
    CASE q = "high_priority" -> high_priority
      [] q = "due_today"     -> due_today
      [] q = "overdue"       -> overdue
      [] q = "no_due_date"   -> no_due_date_count
      [] q = "older_overdue" -> older_overdue_count

EmptyBucket(q) == IF q \in {"no_due_date", "older_overdue"} THEN 0 ELSE <<>>

OwnResult(q) ==
    CASE q = "high_priority" -> Processed(QueryResults(db, high_priority_filter(today)))
      [] q = "due_today"     -> Processed(QueryResults(db, due_today_filter(today)))
      [] q = "overdue"       -> Processed(QueryResults(db, overdue_filter(today)))
      [] q = "no_due_date"   -> Len(QueryResults(db, no_due_date_filter(today)))
      [] q = "older_overdue" -> Len(QueryResults(db, older_overdue_filter(today)))

InBucket(rec, bucket) == \E i \in DOMAIN bucket : bucket[i] = rec

\* C1: whichever of the five queries raise, get_tasks issues all five, in
\* order, and returns the five buckets: a bucket whose query raised is empty
\* or zero, every other bucket holds the result of its own query.
C1_FailureIsolated ==
    tpc = 7
        => /\ issued = QueryOrder
           /\ result = <<high_priority, due_today, overdue, no_due_date_count,
                         older_overdue_count>>
           /\ \A i \in DOMAIN QueryOrder :
                /\ result[i] = Bucket(QueryOrder[i])
                /\ QueryOrder[i] \in failed
                     => Bucket(QueryOrder[i]) = EmptyBucket(QueryOrder[i])
                /\ QueryOrder[i] \notin failed
                     => Bucket(QueryOrder[i]) = OwnResult(QueryOrder[i])

C1_Witness ==
    /\ tpc = 7
    /\ failed = {"due_today", "no_due_date"}
    /\ Len(db) = 2
    /\ Len(high_priority) = 1
    /\ Len(overdue) = 2
    /\ due_today = <<>>

\* C2, as claimed (for the pages process_task keeps): with the due-today and
\* the overdue query answered, every page that is not Done and due exactly
\* today is in the Due Today bucket and is not in the Overdue bucket.
C2_DueTodayOnlyThere ==
    (tpc = 7 /\ "due_today" \notin failed /\ "overdue" \notin failed)
        => \A i \in DOMAIN db :
              (db[i].status # Done /\ db[i].due = <<today>>
                    /\ process_task(db[i]) # None)
                  => /\ InBucket(process_task(db[i]), due_today)
                     /\ ~InBucket(process_task(db[i]), overdue)

\* ---------------------------------------------- cleanup_old_files on its own
MaxFiles == 3

\* The ages, in minutes, of the dated files the sweep finds
SweepAges ==
    {6 * MinutesPerDay, 7 * MinutesPerDay, 7 * MinutesPerDay + 1,
     7 * MinutesPerDay + 12 * 60, 8 * MinutesPerDay - 1,
     8 * MinutesPerDay, 9 * MinutesPerDay}

\* A report last written age minutes ago and archived the day after
DatedFile(age, ext) ==
    [date |-> DateOf(ClockAtStart - age) + 1, ext |-> ext,
     content |-> Full(0), mtime |-> ClockAtStart - age]

\* The directories the sweep may find: up to MaxFiles dated files, no two of
\* one name
DatedDirs ==
    {D \in SUBSET {DatedFile(age, ext) : age \in SweepAges, ext \in {"md", "txt"}} :
        /\ Cardinality(D) <= MaxFiles
        /\ \A a, b \in D : (a.date = b.date /\ a.ext = b.ext) => a = b}

\* generate_report has reached the sweep, with some dated files in target/
InitCleanup ==
    /\ pc = "cleanup"
    /\ now = ClockAtStart
    /\ ticks = 0
    /\ runs = 1
    /\ cache = FileOf(Full(1), ClockAtStart)
    /\ md = Absent
    /\ txt = Absent
    /\ archive \in DatedDirs
    /\ start = [cache |-> cache, md |-> Absent, txt |-> Absent, archive |-> archive]
    /\ projQueries = 0
    /\ taskQueries = Len(QueryOrder)
    /\ failedAt = ""
    /\ lastRefresh = "fresh"
    /\ lastRotate = "skipped"
    /\ movesSinceWrite = 0
    /\ prevOk = NoPrev
    /\ touched = FALSE
    /\ archivedHist = {}
    /\ removeErrors = {}
    /\ swallowed = "none"
    /\ refreshAt = ClockAtStart
    /\ generated_at = 0
    /\ TasksIdle
    /\ RenderIdle

NextCleanup ==
    \/ Cleanup
    \/ CleanupStatError

SpecCleanup == InitCleanup /\ [][NextCleanup]_vars

\* C6, as claimed: the sweep deletes every dated file last modified more
\* than 7 days ago, unless its removal raises, and keeps every dated file 7
\* days old or younger.
C6_SweepByAge ==
    pc = "open"
        => \A a \in start.archive :
              /\ (now - a.mtime > 7 * 24 * 60 /\ a \notin removeErrors)
                    => a \notin archive
              /\ now - a.mtime <= 7 * 24 * 60 => a \in archive

\* ------------------------------------------- write_section on its own
InitRender == MainInit /\ TasksIdle /\ RenderInit

SpecRender == InitRender /\ [][WriteSection]_vars

RECURSIVE Unbracketed(_)
Unbracketed(s) ==
    IF s = <<>> THEN <<>>
    ELSE (IF Head(s) \in {"[", "]"} THEN <<>> ELSE <<Head(s)>>) \o Unbracketed(Tail(s))

HasBracket(s) == \E i \in DOMAIN s : s[i] \in {"[", "]"}

NoBracketFields(task) ==
    /\ ~HasBracket(task[1])
    /\ ~HasBracket(task[2])
    /\ task[3] = None \/ ~HasBracket(task[3][1])
    /\ ~HasBracket(task[4])

RichBase(task) == <<"-", " ", "[", " ", "]", " ", "[">> \o task[1] \o <<"]", "(">> \o task[2] \o <<")">>

StartsWith(line, prefix) ==
    Len(line) >= Len(prefix) /\ SubSeq(line, 1, Len(prefix)) = prefix

Rest(line, prefix) == SubSeq(line, Len(prefix) + 1, Len(line))

ExampleTask == <<FixBug, UrlX1, <<P1>>, High>>

\* The writes of the line of task i that were reached and did not raise
MdWritten(i) == raised.heading = "none" /\ raised.lines[i] # "md"
TxtWritten(i) == raised.heading = "none" /\ raised.lines[i] = "none"

\* The line of task i in each file: after the heading and the lines of the
\* tasks before it that were written
MdLineOf(i) == md_file[1 + Cardinality({j \in 1..i : MdWritten(j)})]
TxtLineOf(i) == txt_file[1 + Cardinality({j \in 1..i : TxtWritten(j)})]

\* C8, as claimed: for a task with no bracket in its fields (its lines
\* written) the rich line is "- [ ] [name](url)" and the suffixes, and the
\* plain line is "- name(url)" and the same suffixes.
C8_PlainLineOneSpace ==
    rpc = "rendered"
        => \A i \in DOMAIN tasks :
              (NoBracketFields(tasks[i]) /\ TxtWritten(i))
                  => /\ StartsWith(MdLineOf(i), RichBase(tasks[i]))
                     /\ TxtLineOf(i) =
                          <<"-", " ">> \o tasks[i][1] \o <<"(">> \o tasks[i][2] \o <<")">>
                            \o Rest(MdLineOf(i), RichBase(tasks[i]))

\* C8, amended: the rich line is "- [ ] [name](url)" and the suffixes; the
\* plain line is "-   name(url)", the dash and three spaces (the brackets of
\* the checkbox go, its spaces stay), and the suffixes less their brackets.
\* The example gives "-   Fix bug(http://x/1) (Project: Alpha), Status: High".
\* A task whose write raises is skipped: each file holds the heading, the
\* lines of the tasks whose write to it was reached and did not raise, and
\* the empty line; a line the encoding cannot take is in neither file.
C8_PlainLineThreeSpaces ==
    rpc = "rendered"
        => /\ \A i \in DOMAIN tasks :
                /\ (NoBracketFields(tasks[i]) /\ MdWritten(i))
                     => StartsWith(MdLineOf(i), RichBase(tasks[i]))
                /\ (NoBracketFields(tasks[i]) /\ TxtWritten(i))
                     => TxtLineOf(i) =
                           <<"-", " ", " ", " ">> \o tasks[i][1] \o <<"(">> \o tasks[i][2] \o <<")">>
                             \o Unbracketed(Rest(MdLineOf(i), RichBase(tasks[i])))
                /\ (tasks[i] = ExampleTask /\ P1 \in DOMAIN projects_info
                      /\ projects_info[P1] = Alpha /\ TxtWritten(i))
                     => /\ MdLineOf(i) =
                             <<"-", " ", "[", " ", "]", " ", "[", "F", "i", "x", " ", "b", "u", "g", "]", "(", "h", "t", "t", "p", ":", "/", "/", "x", "/", "1", ")", " ", "(", "P", "r", "o", "j", "e", "c", "t", ":", " ", "A", "l", "p", "h", "a", ")", ",", " ", "S", "t", "a", "t", "u", "s", ":", " ", "H", "i", "g", "h">>
                        /\ TxtLineOf(i) =
                             <<"-", " ", " ", " ", "F", "i", "x", " ", "b", "u", "g", "(", "h", "t", "t", "p", ":", "/", "/", "x", "/", "1", ")", " ", "(", "P", "r", "o", "j", "e", "c", "t", ":", " ", "A", "l", "p", "h", "a", ")", ",", " ", "S", "t", "a", "t", "u", "s", ":", " ", "H", "i", "g", "h">>
                /\ (encoding = "ascii" /\ tasks[i][1] = Cafe)
                     => (~MdWritten(i) /\ ~TxtWritten(i))
           /\ (tasks # <<>> /\ raised.heading = "none")
                => /\ Len(md_file) = 1 + Cardinality({i \in DOMAIN tasks : MdWritten(i)})
                                        + (IF raised.blank = "md" THEN 0 ELSE 1)
                   /\ Len(txt_file) = 1 + Cardinality({i \in DOMAIN tasks : TxtWritten(i)})
                                         + (IF raised.blank = "none" THEN 1 ELSE 0)
           /\ (tasks = <<>> \/ raised.heading # "none")
                => /\ txt_file = <<>>
                   /\ Len(md_file) = (IF raised.heading = "txt" THEN 1 ELSE 0)

C8_Witness ==
    /\ rpc = "rendered"
    /\ tasks # <<>>
    /\ tasks[1] = ExampleTask
    /\ projects_info = [k \in {P1} |-> Alpha]
    /\ Len(txt_file) = 3
    /\ Len(md_file) = 3

\* C9, as claimed: the line of a task (when it is written) carries
\* " (Project: <name>)", with the cached name, exactly when the task's
\* project_id is a key of the cache.
C9_ProjectSuffixIffKey ==
    rpc = "rendered"
        => \A i \in DOMAIN tasks :
              LET project_id == tasks[i][3]
                  status == tasks[i][4]
                  isKey == project_id # None /\ project_id[1] \in DOMAIN projects_info
                  projectSuffix ==
                      IF isKey
                        THEN <<" ", "(", "P", "r", "o", "j", "e", "c", "t", ":", " ">> \o projects_info[project_id[1]] \o <<")">>
                        ELSE <<>>
                  statusSuffix ==
                      IF status # <<>> /\ status # Unknown
                        THEN <<",", " ", "S", "t", "a", "t", "u", "s", ":", " ">> \o status
                        ELSE <<>>
              IN  MdWritten(i)
                    => MdLineOf(i) = RichBase(tasks[i]) \o projectSuffix \o statusSuffix

\* ------------------------------------------------- properties of the run
FullPair(m, t) ==
    /\ m.exists /\ m.content.part = "full"
    /\ t.exists /\ t.content.part = "full"
    /\ m.content.run = t.content.run

\* The files of extension ext that hold content c, under any name
Holders(c, ext) ==
    {a \in archive : a.ext = ext /\ a.content = c}
        \cup (IF ext = "md" /\ md.exists /\ md.content = c THEN {md} ELSE {})
        \cup (IF ext = "txt" /\ txt.exists /\ txt.content = c THEN {txt} ELSE {})

ArchivedAs(date, ext, c) ==
    \E a \in archive : a.date = date /\ a.ext = ext /\ a.content = c

\* C3, as claimed: a run of generate_report that fails, at whatever step,
\* leaves tasks_report.md and tasks_report.txt holding the complete previous
\* pair.
C3_FailedRunKeepsPair ==
    (pc = "failed" /\ FullPair(start.md, start.txt))
        => (md = start.md /\ txt = start.txt)

\* C3, amended: a run that fails at the cache load leaves the current pair
\* and the archive as they were.  (A run that fails at the archive step or
\* later has already renamed or truncated the previous pair.)  After a run
\* that completes both current files are that run's report, written now:
\* complete when no write raised inside write_section, and otherwise
\* lacking the lines that were skipped, the .txt file whenever the .md file
\* does.
C3_FailureAtLoadKeepsPair ==
    /\ (pc = "failed" /\ failedAt = "load")
          => (md = start.md /\ txt = start.txt /\ archive = start.archive)
    /\ pc = "done"
          => /\ md.exists /\ md.mtime = now /\ md.content.run = runs
             /\ txt.exists /\ txt.mtime = now /\ txt.content.run = runs
             /\ md.content.part \in {"full", "lacking"}
             /\ txt.content.part \in {"full", "lacking"}
             /\ swallowed = "none" <=> txt.content.part = "full"
             /\ md.content.part = "lacking" => txt.content.part = "lacking"

C3_Witness ==
    /\ pc = "failed"
    /\ failedAt = "load"
    /\ FullPair(start.md, start.txt)
    /\ FullPair(md, txt)

\* C4: when the cache needs a refresh and the project query raises, the run
\* ends there: the cache file is as it was, no task query was issued, and no
\* report file was rotated, deleted or written.
C4_RefreshErrorHalts ==
    lastRefresh = "error"
        => /\ pc = "crashed"
           /\ projQueries = 1
           /\ cache = start.cache
           /\ taskQueries = 0
           /\ md = start.md
           /\ txt = start.txt
           /\ archive = start.archive

C4_Witness ==
    /\ lastRefresh = "error"
    /\ pc = "crashed"
    /\ start.cache.exists
    /\ FullPair(md, txt)
    /\ archive # {}

\* The cache file was stale at the freshness test of this run.
StaleAtTest ==
    \/ ~start.cache.exists
    \/ refreshAt - start.cache.mtime >= 24 * 60

\* C5, as claimed: refresh_projects_info issues the project query exactly
\* when there is no cache file or the file is 24 hours old or older; a
\* younger file is left as it is, and otherwise the cache is rewritten.
C5_QueryAndRewrite ==
    lastRefresh # "none"
        => /\ projQueries = (IF StaleAtTest THEN 1 ELSE 0)
           /\ ~StaleAtTest => cache = start.cache
           /\ StaleAtTest => (cache.exists /\ cache.content = Full(runs))

\* C5, amended: the project query is issued exactly when there is no cache
\* file or the file is 24 hours old or older by the clock of the freshness
\* test; a younger file is left as it is.  After the query the file is as
\* it was when the query raised, an entry had no title or the file could
\* not be opened, it is this run's whole answer when the write went
\* through, and a truncated file when the write raised after the opening;
\* a file written carries the clock of the write, which is not before
\* "generated_at", itself not before the freshness test.
C5_QueryIffStale ==
    lastRefresh # "none"
        => /\ projQueries = (IF StaleAtTest THEN 1 ELSE 0)
           /\ ~StaleAtTest => (lastRefresh = "fresh" /\ cache = start.cache)
           /\ StaleAtTest
                 => /\ lastRefresh \in {"error", "untitled", "write_raised",
                                        "full", "partial"}
                    /\ lastRefresh \in {"error", "untitled", "write_raised"}
                          => cache = start.cache
                    /\ lastRefresh \in {"full", "partial"}
                          => /\ cache.exists
                             /\ cache.content = [run |-> runs, part |-> lastRefresh]
                             /\ refreshAt <= generated_at
                             /\ generated_at <= cache.mtime
                             /\ cache.mtime <= now

C5_Witness ==
    /\ lastRefresh = "full"
    /\ start.cache.exists
    /\ refreshAt - start.cache.mtime >= 24 * 60
    /\ projQueries = 1
    /\ cache.content = Full(runs)
    /\ cache.mtime > refreshAt

\* C7: once the archive step has moved the current pair no current file is
\* left, an archive step that follows with no report file created in
\* between moves nothing, and no date has two archived files of one format.
C7_RotationIdempotent ==
    /\ (pc = "cleanup" /\ lastRotate = "moved") => (~md.exists /\ ~txt.exists)
    /\ movesSinceWrite <= 1
    /\ \A a, b \in archive : (a.date = b.date /\ a.ext = b.ext) => a = b

C7_Witness ==
    /\ pc = "cleanup"
    /\ lastRotate = "skipped"
    /\ movesSinceWrite = 1
    /\ archive = start.archive
    /\ \E h \in archivedHist : h.date = DateOf(now) /\ h.ext = "txt"

\* C10, as claimed: when a run completes and the last run to complete
\* before it did so on the same date, the dated pair holds the report of
\* that earlier run, and whatever an earlier archive step of that date
\* stored under the dated names and is not there now is in no file at all.
C10_SameDayOverwrite ==
    pc = "done"
        => LET d == DateOf(now)
           IN  /\ (prevOk.run > 0 /\ prevOk.date = d)
                     => /\ ArchivedAs(d, "md", prevOk.md)
                        /\ ArchivedAs(d, "txt", prevOk.txt)
               /\ \A h \in archivedHist :
                     (h.date = d /\ ~ArchivedAs(d, h.ext, h.content))
                         => Holders(h.content, h.ext) = {}

\* C10, amended: when a run completes whose archive step moved a pair last
\* written on the same date, the dated pair holds what that pair held as the
\* run started: the report of the run before when that run completed (and
\* no failed run has changed the pair since), the empty or part-written
\* files of a failed run otherwise.  Whatever an earlier archive step of
\* that date stored under the dated names and is not there now is in no
\* file at all.
C10_SameDayOverwriteOfCurrent ==
    pc = "done"
        => LET d == DateOf(now)
           IN  /\ (prevOk.run > 0 /\ prevOk.date = d /\ ~touched)
                     => /\ prevOk.md.run = prevOk.run
                        /\ prevOk.txt.run = prevOk.run
                        /\ ArchivedAs(d, "md", prevOk.md)
                        /\ ArchivedAs(d, "txt", prevOk.txt)
               /\ (lastRotate = "moved" /\ DateOf(start.md.mtime) = d)
                     => /\ ArchivedAs(d, "md", start.md.content)
                        /\ ArchivedAs(d, "txt", start.txt.content)
               /\ \A h \in archivedHist :
                     (h.date = d /\ ~ArchivedAs(d, h.ext, h.content))
                         => Holders(h.content, h.ext) = {}

C10_Witness ==
    /\ pc = "done"
    /\ prevOk.run > 0 /\ prevOk.date = DateOf(now) /\ ~touched
    /\ prevOk.md = Full(prevOk.run)
    /\ ArchivedAs(DateOf(now), "md", prevOk.md)
    /\ \E h \in archivedHist :
          /\ h.date = DateOf(now)
          /\ h.content.part = "full"
          /\ h.content.run < prevOk.run

====
